---- MODULE Spec2Model ----
(***************************************************************************)
(* A model of the simulated-live viewing session of mux-simulive:          *)
(*   src/src/lib/simulive.ts                  calculateSimuliveState,      *)
(*                                            hasDrifted                   *)
(*   src/src/components/SimulatedLivePlayer.tsx  the session component     *)
(*                                                                         *)
(* Numbers.  Times are integers of milliseconds, as Date.now() gives them. *)
(* A quantity the code keeps in seconds (elapsedSeconds, currentPosition,  *)
(* player.currentTime, ...) is the quotient of an integer of milliseconds  *)
(* by 1000; it is carried here exactly, as its integer numerator over the  *)
(* denominator 1000 ("thousandths").  videoDuration and driftTolerance are *)
(* whole seconds in the props; Thousandths(s) is their value on that       *)
(* scale.  The session is modelled with finite numbers; what               *)
(* calculateSimuliveState does with NaN is modelled apart, on numbers that *)
(* are either NaN or finite (Num), in CalculateSpec.                       *)
(*                                                                         *)
(* The server side (ApiSpec, LoginSpec) is a machine of its own:           *)
(*   src/unnamed/part_000 (lib/auth.ts with sessions), src/src/lib/redis.ts *)
(*   src/unnamed/part_004 (POST /api/admin/login),                         *)
(*   src/src/app/api/admin/logout/route.ts, src/src/app/api/streams/...    *)
(* A session leaves its variables alone, and it leaves the session's.      *)
(***************************************************************************)
EXTENDS Integers, Sequences, FiniteSets, TLC

VARIABLES
  scheduledStartMs,  \* prop scheduledStart, parsed: ms on the server's clock
  videoDuration,     \* prop videoDuration (seconds)
  syncInterval,      \* prop syncInterval (ms)
  driftTolerance,    \* prop driftTolerance (seconds)
  playbackPolicy,    \* prop playbackPolicy
  skew,              \* the server's clock minus the client's clock (ms)
  now,               \* Date.now() of the client (ms)
  serverTimeOffset,  \* useState serverTimeOffset
  lastSyncTimeRef,   \* useRef lastSyncTimeRef
  expectedElapsedRef,\* useRef expectedElapsedRef
  state,             \* useState state: the SimuliveState last stored, or NullState
  isLoading,         \* useState isLoading
  playerReady,       \* useState playerReady
  tokens,            \* useState tokens
  tokenError,        \* useState tokenError
  tokenFetch,        \* the token request of the fetchTokens effect
  calibrations,      \* calibrateTime calls awaiting fetchServerTime
  initialTimer,      \* setTimeout(syncPlayer, 500): {deadline}, or NoTimer
  intervalId,        \* setInterval(syncPlayer, syncInterval): {next deadline}
  resumeTimers,      \* deadlines of the setTimeout calls of handlePause
  cursor,            \* player.currentTime (thousandths of a second)
  paused,            \* player.paused
  seekingEvents,     \* "seeking" events queued for onSeeking
  pauseEvents,       \* "pause" events queued for onPause
  countdownTimer,    \* the countdown setInterval: {next deadline}, or NoTimer
  ev,                \* the evaluation made by the step that led here
  endedSeen,         \* an evaluation of this session has yielded hasEnded
  endedHandled,      \* a syncPlayer call has handled Live -> Ended: it found
                     \* hasEnded with the stored state live
  mounted,           \* the component is mounted
  playCalled,        \* the step that led here called player.play()
  userSeek,          \* the user has moved the cursor since the last "seeking"
                     \* event was delivered
  recalibrationInterval, \* setInterval(calibrateTime, 60000): {next deadline}
  clockCheckInterval,\* the heartbeat setInterval: {next deadline}
  previousTick,      \* when the heartbeat last ticked (when the session began,
                     \* before its first tick)
  cal,               \* the calibration or heartbeat step that led here
  lastTimerSync,     \* the last run of syncPlayer driven by a sync timer: when
                     \* it was and whether it was the first of the session
  calc,              \* the call of calculateSimuliveState made apart from the
                     \* session (CalculateSpec): its arguments and its result
  adminPasswordSet,  \* process.env.ADMIN_PASSWORD is set
  redisConfigured,   \* process.env.REDIS_URL is set
  sessions,          \* Redis: the tokens with a key session:<token>
  issued,            \* the tokens createAdminSession has returned
  loggedOut,         \* the issued tokens POST /api/admin/logout was called with
  streams,           \* the stream records of the database
  loginAttempts,     \* Redis: the counter ratelimit:login:<ip> (0: no key)
  loginExpiry,       \* Redis: whether that key has a time to live
  logins,            \* the login requests under way
  verified,          \* per IP, the requests let through to the password
                     \* check since the counter's key was created
  res,               \* the response the server has just sent
  clusterNow,        \* Date.now() of the cluster primary (ms since its start)
  workers,           \* cluster.workers: the live workers
  ids,               \* the id cluster.fork() gave to its last worker
  workerSpawns,      \* the Map workerSpawns: worker id -> times of respawns
  backoffTimers,     \* the 30 s timeouts of the "exit" handler
  killed,            \* the ids of the workers a shutdown handler has killed
  exitTimers,        \* deadlines of the process.exit timeouts
  primaryExited,     \* process.exit(0) has run
  immediate,         \* per slot, the times of its immediate respawns
  forked             \* what the "exit" handler did in the step that led here

vars == <<scheduledStartMs, videoDuration, syncInterval, driftTolerance,
          playbackPolicy, skew, now, serverTimeOffset, lastSyncTimeRef,
          expectedElapsedRef, state, isLoading, playerReady, tokens,
          tokenError, tokenFetch, calibrations, initialTimer, intervalId,
          resumeTimers, cursor, paused, seekingEvents, pauseEvents,
          countdownTimer, ev, endedSeen, endedHandled, mounted, playCalled,
          userSeek, recalibrationInterval, clockCheckInterval, previousTick,
          cal, lastTimerSync, calc, adminPasswordSet, redisConfigured,
          sessions, issued, loggedOut, streams, loginAttempts, loginExpiry,
          logins, verified, res, clusterNow, workers, ids, workerSpawns,
          backoffTimers, killed, exitTimers, primaryExited, immediate,
          forked>>

client == <<scheduledStartMs, videoDuration, syncInterval, driftTolerance,
            playbackPolicy, skew, now, serverTimeOffset, lastSyncTimeRef,
            expectedElapsedRef, state, isLoading, playerReady, tokens,
            tokenError, tokenFetch, calibrations, initialTimer, intervalId,
            resumeTimers, cursor, paused, seekingEvents, pauseEvents,
            countdownTimer, ev, endedSeen, endedHandled, mounted, playCalled,
            userSeek, recalibrationInterval, clockCheckInterval, previousTick,
            cal, lastTimerSync, calc>>

server == <<adminPasswordSet, redisConfigured, sessions, issued, loggedOut,
            streams, loginAttempts, loginExpiry, logins, verified, res>>

cluster == <<clusterNow, workers, ids, workerSpawns, backoffTimers, killed,
             exitTimers, primaryExited, immediate, forked>>

props == <<scheduledStartMs, videoDuration, syncInterval, driftTolerance,
           playbackPolicy, skew>>

----------------------------------------------------------------------------
(* Bounds of the model *)

MaxNow == 2500          \* the session is followed for MaxNow ms
TickMs == 500           \* the step of the clock (ms)
MaxInFlight == 2        \* overlapping calibrateTime calls (CalSpec, ClockSpec)
MaxEvents == 1          \* queued events of one kind
MaxRequestLatency == 500 \* a clock request is answered or lost within this (ms)
MaxReturnLatency == 500 \* a clock response is delivered or lost within this (ms)
MaxLateMs == 500        \* a timer fires at most this long (ms) after its deadline
ClockMaxNow == 62500    \* the clock side is followed for ClockMaxNow ms (ClockSpec),
ClockStepMs == 2500     \* in steps of ClockStepMs,
ClockMaxLateMs == 2500  \* its intervals firing at most this long after their deadline
MaxDuration == 2        \* videoDuration of a call in CalculateSpec is at most this (s)
MaxLogins == 2          \* login requests under way at once (LoginSpec)
MaxCounted == 7         \* a login counter is followed up to this value
MaxForks == 6           \* workers forked after the initial spawn (ClusterSpec)
ClusterMaxNow == 10000  \* the primary is followed for ClusterMaxNow ms,
ClusterTickMs == 5000   \* in steps of ClusterTickMs

(* Program constants *)

InitialSyncDelay == 500 \* setTimeout(syncPlayer, 500)
RecalibrationInterval == 60000 \* setInterval(() => calibrateTime(), 60000)
HeartbeatInterval == 5000      \* setInterval(..., 5000) of the heartbeat
HeartbeatThreshold == 2000     \* Math.abs(...) > 2000
ResumeDelay == 100      \* setTimeout(..., 100) of handlePause
CountdownInterval == 1000 \* setInterval(..., 1000) of the countdown effect
MaxLoginAttempts == 5   \* MAX_LOGIN_ATTEMPTS
NUM_WORKERS == 4        \* the workers of the initial spawn
RESPAWN_WINDOW == 60000 \* ms
MAX_RESPAWNS == 5
BackoffDelay == 30000   \* setTimeout(..., 30000) of the "exit" handler

Null == "null"                 \* null of a string-valued state
NullState == [isNull |-> TRUE] \* null of the state `state`
NoTimer == {}                  \* a cleared timer; a set timer is {deadline}
NoEv == [by |-> "none"]
NoCal == [by |-> "none"]
NoCalc == [by |-> "none"]
NoRes == [by |-> "none"]
NoFork == [by |-> "none"]

\* The client IPs, session tokens and stream ids of the server side.
Ips == {"ip1", "ip2"}
Tokens == {"token1", "token2"}
StreamIds == {"stream1", "stream2"}

\* The server side at rest, as a session finds and leaves it.
NoServer ==
  /\ adminPasswordSet = TRUE
  /\ redisConfigured = TRUE
  /\ sessions = {}
  /\ issued = {}
  /\ loggedOut = {}
  /\ streams = {}
  /\ loginAttempts = [ip \in Ips |-> 0]
  /\ loginExpiry = [ip \in Ips |-> FALSE]
  /\ logins = {}
  /\ verified = [ip \in Ips |-> 0]
  /\ res = NoRes

\* A worker: the id cluster.fork() gave it (a new one for every fork), and
\* its slot: the worker of the initial spawn that it replaces, directly or
\* through other replacements.  The code has no slots; they tell the
\* respawns of one crashing worker from those of another.
Worker(id, slot) == [id |-> id, slot |-> slot]

WorkerIds == 1..(NUM_WORKERS + MaxForks)

\* The primary after the initial spawn: NUM_WORKERS workers, an empty Map.
PrimaryStarted ==
  /\ clusterNow = 0
  /\ workers = { Worker(i, i) : i \in 1..NUM_WORKERS }
  /\ ids = NUM_WORKERS
  /\ workerSpawns = [id \in WorkerIds |-> << >>]
  /\ backoffTimers = {}
  /\ killed = {}
  /\ exitTimers = {}
  /\ primaryExited = FALSE
  /\ immediate = [slot \in 1..NUM_WORKERS |-> << >>]
  /\ forked = NoFork

----------------------------------------------------------------------------
(* src/src/lib/simulive.ts *)

Thousandths(seconds) == seconds * 1000

MathMax(a, b) == IF a >= b THEN a ELSE b

MathMin(a, b) == IF a <= b THEN a ELSE b

MathAbs(a) == IF a < 0 THEN 0 - a ELSE a

\* calculateSimuliveState with hasEnded decided by > instead of >=.
calculateSimuliveState_EndedStrict(serverTimeMs, config) ==
  LET elapsedSeconds == serverTimeMs - config.scheduledStartMs
      duration == Thousandths(config.videoDuration)
  IN  [ isLive |-> elapsedSeconds >= 0 /\ elapsedSeconds < duration,
        hasEnded |-> elapsedSeconds > duration,
        currentPosition |-> MathMax(0, MathMin(elapsedSeconds, duration)),
        secondsUntilStart |-> MathMax(0, 0 - elapsedSeconds),
        secondsRemaining |-> MathMax(0, duration - elapsedSeconds) ]

\* calculateSimuliveState with the position not clamped at 0.
calculateSimuliveState_NoLowClamp(serverTimeMs, config) ==
  LET elapsedSeconds == serverTimeMs - config.scheduledStartMs
      duration == Thousandths(config.videoDuration)
  IN  [ isLive |-> elapsedSeconds >= 0 /\ elapsedSeconds < duration,
        hasEnded |-> elapsedSeconds >= duration,
        currentPosition |-> MathMin(elapsedSeconds, duration),
        secondsUntilStart |-> MathMax(0, 0 - elapsedSeconds),
        secondsRemaining |-> MathMax(0, duration - elapsedSeconds) ]

\* calculateSimuliveState with isLive decided by elapsed > 0 instead of >= 0.
calculateSimuliveState_LiveStrict(serverTimeMs, config) ==
  LET elapsedSeconds == serverTimeMs - config.scheduledStartMs
      duration == Thousandths(config.videoDuration)
  IN  [ isLive |-> elapsedSeconds > 0 /\ elapsedSeconds < duration,
        hasEnded |-> elapsedSeconds >= duration,
        currentPosition |-> MathMax(0, MathMin(elapsedSeconds, duration)),
        secondsUntilStart |-> MathMax(0, 0 - elapsedSeconds),
        secondsRemaining |-> MathMax(0, duration - elapsedSeconds) ]

\* calculateSimuliveState with the live interval closed at its upper end.
calculateSimuliveState_LiveClosed(serverTimeMs, config) ==
  LET elapsedSeconds == serverTimeMs - config.scheduledStartMs
      duration == Thousandths(config.videoDuration)
  IN  [ isLive |-> elapsedSeconds >= 0 /\ elapsedSeconds <= duration,
        hasEnded |-> elapsedSeconds > duration,
        currentPosition |-> MathMax(0, MathMin(elapsedSeconds, duration)),
        secondsUntilStart |-> MathMax(0, 0 - elapsedSeconds),
        secondsRemaining |-> MathMax(0, duration - elapsedSeconds) ]

\* config: [scheduledStartMs, videoDuration]; every seconds-valued field of
\* the result is in thousandths.
calculateSimuliveState(serverTimeMs, config) ==
  LET elapsedMs == serverTimeMs - config.scheduledStartMs
      elapsedSeconds == elapsedMs            \* elapsedMs / 1000, in thousandths
      duration == Thousandths(config.videoDuration)
  IN  [ isLive |-> elapsedSeconds >= 0 /\ elapsedSeconds < duration,
        hasEnded |-> elapsedSeconds >= duration,
        currentPosition |-> MathMax(0, MathMin(elapsedSeconds, duration)),
        secondsUntilStart |-> MathMax(0, 0 - elapsedSeconds),
        secondsRemaining |-> MathMax(0, duration - elapsedSeconds) ]

\* hasDrifted with >= instead of >.
hasDrifted_Inclusive(actualPosition, expectedPosition, tolerance) ==
  MathAbs(actualPosition - expectedPosition) >= Thousandths(tolerance)

\* positions in thousandths, tolerance in seconds
hasDrifted(actualPosition, expectedPosition, tolerance) ==
  MathAbs(actualPosition - expectedPosition) > Thousandths(tolerance)

----------------------------------------------------------------------------
(* calculateSimuliveState on JavaScript numbers: a number is NaN or finite. *)
(* Arithmetic with NaN gives NaN, a comparison with NaN is false, Math.max  *)
(* and Math.min of NaN are NaN.                                             *)

NaN == [nan |-> TRUE]

Num(n) == [nan |-> FALSE, n |-> n]

isNaN(x) == x.nan

\* x - y
Minus(x, y) == IF x.nan \/ y.nan THEN NaN ELSE Num(x.n - y.n)

\* -x
Negated(x) == IF x.nan THEN NaN ELSE Num(0 - x.n)

\* x >= y
AtLeast(x, y) == ~x.nan /\ ~y.nan /\ x.n >= y.n

\* x < y
LessThan(x, y) == ~x.nan /\ ~y.nan /\ x.n < y.n

NumberMax(x, y) == IF x.nan \/ y.nan THEN NaN ELSE Num(MathMax(x.n, y.n))

NumberMin(x, y) == IF x.nan \/ y.nan THEN NaN ELSE Num(MathMin(x.n, y.n))

\* A scheduledStart string: one that Date can parse, with the time it
\* names (ms), or one it cannot.
DateString(ms) == [parsable |-> TRUE, ms |-> ms]
Unparsable == [parsable |-> FALSE]

\* new Date(scheduledStart).getTime(): NaN of an invalid date.
getTime(scheduledStart) ==
  IF scheduledStart.parsable THEN Num(scheduledStart.ms) ELSE NaN

\* elapsedSeconds of calculateSimuliveState (thousandths).
elapsedSeconds(serverTimeMs, scheduledStart) ==
  Minus(serverTimeMs, getTime(scheduledStart))

\* calculateSimuliveState(serverTimeMs, {scheduledStart, videoDuration}) with
\* serverTimeMs a number and scheduledStart a string; the seconds-valued
\* fields of the result are numbers in thousandths.
calculateSimuliveStateOfNumbers(serverTimeMs, scheduledStart, duration) ==
  LET elapsed == elapsedSeconds(serverTimeMs, scheduledStart)
      videoDurationS == Num(Thousandths(duration))
  IN  [ isLive |-> AtLeast(elapsed, Num(0)) /\ LessThan(elapsed, videoDurationS),
        hasEnded |-> AtLeast(elapsed, videoDurationS),
        currentPosition |-> NumberMax(Num(0), NumberMin(elapsed, videoDurationS)),
        secondsUntilStart |-> NumberMax(Num(0), Negated(elapsed)),
        secondsRemaining |-> NumberMax(Num(0), Minus(videoDurationS, elapsed)) ]

\* x + y
Plus(x, y) == IF x.nan \/ y.nan THEN NaN ELSE Num(x.n + y.n)

\* A response of GET /api/time as fetchServerTime meets it: a JSON body with
\* a numeric serverTime, a JSON body without one (an error object of the
\* server or of a proxy: the status is not looked at), or no JSON at all.
TimeBody(serverTime) == [json |-> TRUE, hasServerTime |-> TRUE, serverTime |-> serverTime]
BodyWithoutServerTime == [json |-> TRUE, hasServerTime |-> FALSE]
NotJson == [json |-> FALSE]

Undefined == [undefined |-> TRUE]
Rejected == [rejected |-> TRUE]

\* fetchServerTime(): data.serverTime, undefined of a body that lacks it;
\* the promise is rejected when the request fails or the body is not JSON.
fetchServerTime(body) ==
  IF ~body.json THEN Rejected
  ELSE IF body.hasServerTime THEN Num(body.serverTime)
  ELSE Undefined

\* The number a value is taken for by an arithmetic operator.
ToNumber(value) == IF "undefined" \in DOMAIN value THEN NaN ELSE value

\* calibrateTime on JavaScript numbers: the offset it hands to
\* setServerTimeOffset when the response is body and Date.now() is dateNow.
calibrateTimeOfNumbers(body, dateNow) ==
  LET serverTime == fetchServerTime(body)
  IN  IF "rejected" \in DOMAIN serverTime
      THEN Num(0)
      ELSE Minus(ToNumber(serverTime), Num(dateNow))

----------------------------------------------------------------------------
(* src/src/components/SimulatedLivePlayer.tsx *)

config == [scheduledStartMs |-> scheduledStartMs, videoDuration |-> videoDuration]

getSyncedTime == now + serverTimeOffset

\* The condition of the MuxPlayer element without the test of tokens.
PlayerMounted_Unsigned == mounted /\ tokenError = Null

\* The MuxPlayer element is rendered, so playerRef.current is set.
PlayerMounted ==
  mounted /\ (playbackPolicy = "public" \/ tokens # Null) /\ tokenError = Null

\* The state the session has stored, from its last evaluation, is live.
WasLive == state # NullState /\ state.isLive

IsPreRoll(st) == st # NullState /\ ~st.isLive /\ ~st.hasEnded

Enqueue(n) == MathMin(n + 1, MaxEvents)

\* The sync effect of a render committed now: its cleanup clears both timers
\* and its body sets them again.  config is a new object on every render, so
\* syncPlayer is a new callback and the effect runs on every render.
\* The countdown effect depends on state and config as well, so it too runs
\* on every render; it sets its interval only while the stored state is
\* pre-roll.  newState is the state the render shows.
Render(newState) ==
  /\ initialTimer' = {now + InitialSyncDelay}
  /\ intervalId' = {now + syncInterval}
  /\ countdownTimer' = IF IsPreRoll(newState) THEN {now + CountdownInterval}
                                              ELSE NoTimer

NoRender == UNCHANGED <<initialTimer, intervalId, countdownTimer>>

Due(timer) == \E deadline \in timer : now >= deadline

\* What an evaluation leaves in ev: the handler, whether it was a syncPlayer
\* call, the synced time it read, the state it computed, whether hasDrifted
\* answered true, and the player, the stored state and the latches as it
\* found them.
Evaluation(by, sync, currentState, drifted) ==
  [by |-> by, sync |-> sync, syncedTime |-> getSyncedTime, st |-> currentState,
   drifted |-> drifted, actual |-> cursor, wasPaused |-> paused,
   wasLive |-> WasLive, userSeek |-> userSeek, endedBefore |-> endedSeen,
   previousTimerSync |-> lastTimerSync,
   handledBefore |-> endedHandled]

\* The live branch without the hasDrifted test: the cursor is always set.
LiveCursor_AlwaysSnap(actualPosition, expectedPosition) == expectedPosition

\* The ended branch without the assignment to player.currentTime.
EndedCursor_Keep(actualPosition) == actualPosition

\* The live branch without the assignment to player.currentTime.
LiveCursor_Keep(actualPosition, expectedPosition) == actualPosition

\* The live branch: the cursor after `if (hasDrifted(...)) player.currentTime =
\* expectedPosition`.
LiveCursor(actualPosition, expectedPosition) ==
  IF hasDrifted(actualPosition, expectedPosition, driftTolerance)
  THEN expectedPosition
  ELSE actualPosition

\* The ended branch: the cursor after `player.currentTime = videoDuration`.
EndedCursor(actualPosition) == Thousandths(videoDuration)

\* `if (player.paused)` without the call of play().
playIfPaused_Never(isPaused) == FALSE

\* `if (player.paused) player.play()`, of syncPlayer and of the timeout of
\* handlePause: whether play() is called.
playIfPaused(isPaused) == isPaused

\* player.play(): it may be rejected (autoplay policy, media that cannot be
\* loaded), which the code ignores; the player is then left as it was.
play(called) ==
  /\ playCalled' = called
  /\ IF called
     THEN \E played \in BOOLEAN : paused' = ~played
     ELSE paused' = paused

\* syncPlayer(), called by the handler `by` with `queued` "seeking" events
\* still waiting.  It writes the player and the states state and isLoading;
\* setState(currentState) stores a new object, so a call that gets past the
\* player check is followed by a render.  An assignment to player.currentTime
\* queues a "seeking" event, pause() of a playing player a "pause" event;
\* play() may be rejected (autoplay policy), which the code ignores.
syncPlayer(by, queued) ==
  IF ~PlayerMounted
  THEN /\ UNCHANGED <<state, isLoading, cursor, paused, pauseEvents, endedSeen,
                      endedHandled>>
       /\ seekingEvents' = queued
       /\ playCalled' = FALSE
       /\ cal' = NoCal
       /\ ev' = NoEv
  ELSE LET currentState == calculateSimuliveState(getSyncedTime, config)
           actualPosition == cursor
           expectedPosition == currentState.currentPosition
           drifted == hasDrifted(actualPosition, expectedPosition, driftTolerance)
       IN  /\ state' = currentState
           /\ isLoading' = FALSE
           /\ endedSeen' = (endedSeen \/ currentState.hasEnded)
           /\ endedHandled' = (endedHandled \/ (currentState.hasEnded /\ WasLive))
           /\ ev' = Evaluation(by, TRUE, currentState,
                               currentState.isLive /\ drifted)
           /\ cal' = NoCal
           /\ IF currentState.isLive
              THEN /\ cursor' = LiveCursor(actualPosition, expectedPosition)
                   /\ seekingEvents' = IF drifted THEN Enqueue(queued) ELSE queued
                   /\ play(playIfPaused(paused))
                   /\ UNCHANGED pauseEvents
              ELSE IF currentState.hasEnded
              THEN /\ cursor' = EndedCursor(actualPosition)
                   /\ seekingEvents' = Enqueue(queued)
                   /\ paused' = TRUE
                   /\ playCalled' = FALSE
                   /\ pauseEvents' = IF paused THEN pauseEvents
                                               ELSE Enqueue(pauseEvents)
              ELSE /\ seekingEvents' = queued
                   /\ playCalled' = FALSE
                   /\ UNCHANGED <<cursor, paused, pauseEvents>>

player == <<cursor, paused, seekingEvents, pauseEvents>>

\* A step that does not call player.play().
NoPlay == playCalled' = FALSE
tokenState == <<tokens, tokenError, tokenFetch>>
clockState == <<serverTimeOffset, lastSyncTimeRef, expectedElapsedRef, calibrations>>
clockTimers == <<recalibrationInterval, clockCheckInterval, previousTick>>

\* A sync timer has run syncPlayer: if the call got past the player check,
\* it is the last timer-driven run from now on.  The runs are recorded in
\* SyncLoopSpec only, which measures the time between them.
TimerSync(recorded) ==
  lastTimerSync' = IF recorded /\ PlayerMounted
                   THEN {[at |-> now, first |-> lastTimerSync = {}]}
                   ELSE lastTimerSync

\* setTimeout(syncPlayer, 500) fires.
InitialTimerRuns(recorded) ==
  /\ Due(initialTimer)
  /\ syncPlayer("initialTimer", seekingEvents)
  /\ TimerSync(recorded)
  /\ IF PlayerMounted
     THEN Render(state')
     ELSE initialTimer' = NoTimer /\ UNCHANGED <<intervalId, countdownTimer>>
  /\ UNCHANGED <<props, server, cluster, calc, now, clockState, tokenState, playerReady, resumeTimers,
                 mounted, userSeek, clockTimers>>

InitialTimerFires == InitialTimerRuns(FALSE)

\* setInterval(syncPlayer, syncInterval) fires.
SyncIntervalRuns(recorded) ==
  /\ Due(intervalId)
  /\ syncPlayer("interval", seekingEvents)
  /\ TimerSync(recorded)
  /\ IF PlayerMounted
     THEN Render(state')
     ELSE intervalId' = {now + syncInterval} /\ UNCHANGED <<initialTimer, countdownTimer>>
  /\ UNCHANGED <<props, server, cluster, calc, now, clockState, tokenState, playerReady, resumeTimers,
                 mounted, userSeek, clockTimers>>

SyncIntervalFires == SyncIntervalRuns(FALSE)

\* The countdown interval fires: it evaluates the state and stores it.
CountdownFires ==
  /\ Due(countdownTimer)
  /\ LET currentState == calculateSimuliveState(getSyncedTime, config)
     IN  /\ state' = currentState
         /\ endedSeen' = (endedSeen \/ currentState.hasEnded)
         /\ ev' = Evaluation("countdown", FALSE, currentState, FALSE)
         /\ cal' = NoCal
         /\ Render(currentState)
  /\ NoPlay
  /\ UNCHANGED <<props, server, cluster, calc, lastTimerSync, now, clockState, tokenState, playerReady, resumeTimers,
                 isLoading, player, endedHandled, mounted, userSeek, clockTimers>>

\* onLoadedMetadata: the player has loaded its metadata.
handleLoadedMetadata ==
  /\ PlayerMounted
  /\ ~playerReady
  /\ playerReady' = TRUE
  /\ syncPlayer("loadedmetadata", seekingEvents)
  /\ Render(state')
  /\ UNCHANGED <<props, server, cluster, calc, lastTimerSync, now, clockState, tokenState, resumeTimers, mounted, userSeek, clockTimers>>

\* onSeeking: a queued "seeking" event is delivered.
handleSeeking ==
  /\ PlayerMounted
  /\ seekingEvents > 0
  /\ syncPlayer("seeking", seekingEvents - 1)
  /\ userSeek' = FALSE
  /\ Render(state')
  /\ UNCHANGED <<props, server, cluster, calc, lastTimerSync, now, clockState, tokenState, playerReady, resumeTimers,
                 mounted, clockTimers>>

\* onPause: a queued "pause" event is delivered.  The timeout's callback
\* closes over currentState, so the isLive it tests is the one computed here.
handlePause ==
  /\ PlayerMounted
  /\ pauseEvents > 0
  /\ pauseEvents' = pauseEvents - 1
  /\ LET currentState == calculateSimuliveState(getSyncedTime, config)
     IN  /\ resumeTimers' = IF currentState.isLive
                            THEN resumeTimers \cup {now + ResumeDelay}
                            ELSE resumeTimers
         /\ endedSeen' = (endedSeen \/ currentState.hasEnded)
         /\ ev' = Evaluation("pause", FALSE, currentState, FALSE)
         /\ cal' = NoCal
  /\ NoRender
  /\ NoPlay
  /\ UNCHANGED <<props, server, cluster, calc, lastTimerSync, now, clockState, tokenState, playerReady, state,
                 isLoading, cursor, paused, seekingEvents, endedHandled, mounted, userSeek, clockTimers>>

\* The timeout set by handlePause fires.
ResumeTimerFires(deadline) ==
  /\ deadline \in resumeTimers
  /\ now >= deadline
  /\ resumeTimers' = resumeTimers \ {deadline}
  /\ play(playIfPaused(paused))
  /\ ev' = NoEv
  /\ cal' = NoCal
  /\ NoRender
  /\ UNCHANGED <<props, server, cluster, calc, lastTimerSync, now, clockState, tokenState, playerReady, state,
                 isLoading, cursor, seekingEvents, pauseEvents, endedSeen,
                 endedHandled, mounted, userSeek, clockTimers>>

----------------------------------------------------------------------------
(* calibrateTime and the clock endpoint *)

\* A calibrateTime call, begun at local time t0, whose request the clock
\* endpoint has not answered yet.
Awaiting(t0) == [answered |-> FALSE, sentAt |-> t0]

Remove(seq, i) == [j \in 1..(Len(seq) - 1) |-> IF j < i THEN seq[j] ELSE seq[j + 1]]

\* calibrateTime() is called and awaits fetchServerTime(); the model follows
\* `limit` calls at a time.
calibrateTime(limit) ==
  /\ Len(calibrations) < limit
  /\ calibrations' = Append(calibrations, Awaiting(now))

\* document "visibilitychange" with visibilityState "visible".
handleVisibilityChange(limit) ==
  /\ mounted
  /\ calibrateTime(limit)
  /\ ev' = NoEv
  /\ cal' = NoCal
  /\ NoRender
  /\ NoPlay
  /\ UNCHANGED <<props, server, cluster, calc, lastTimerSync, now, serverTimeOffset, lastSyncTimeRef, expectedElapsedRef,
                 tokenState, playerReady, state, isLoading, player, resumeTimers,
                 endedSeen, endedHandled, mounted, userSeek, clockTimers>>

\* GET /api/time answers request i with the server's Date.now().
ClockAnswers(i) ==
  /\ i \in 1..Len(calibrations)
  /\ ~calibrations[i].answered
  /\ calibrations' = [calibrations EXCEPT ![i] =
         [answered |-> TRUE, sentAt |-> @.sentAt, serverTime |-> now + skew]]
  /\ ev' = NoEv
  /\ cal' = NoCal
  /\ NoRender
  /\ NoPlay
  /\ UNCHANGED <<props, server, cluster, calc, lastTimerSync, now, serverTimeOffset, lastSyncTimeRef, expectedElapsedRef,
                 tokenState, playerReady, state, isLoading, player, resumeTimers,
                 endedSeen, endedHandled, mounted, userSeek, clockTimers>>

\* setServerTimeOffset that keeps an offset once it has one.
setServerTimeOffset_Once(offset) ==
  serverTimeOffset' = IF mounted /\ serverTimeOffset = 0 THEN offset
                                                         ELSE serverTimeOffset

\* setServerTimeOffset(offset): React drops the update of a component that
\* is no longer mounted.
setServerTimeOffset(offset) ==
  serverTimeOffset' = IF mounted THEN offset ELSE serverTimeOffset

\* A state update that changes serverTimeOffset is followed by a render.
RenderIfOffsetChanged ==
  IF serverTimeOffset' # serverTimeOffset THEN Render(state) ELSE NoRender

\* fetchServerTime() resolves for call i: the try block of calibrateTime.
CalibrateSucceeds(i) ==
  /\ i \in 1..Len(calibrations)
  /\ calibrations[i].answered
  /\ LET serverTime == calibrations[i].serverTime
         offset == serverTime - now
     IN  /\ setServerTimeOffset(offset)
         /\ lastSyncTimeRef' = now
         /\ expectedElapsedRef' = 0
  /\ cal' = [by |-> "success", t0 |-> calibrations[i].sentAt, t1 |-> now,
             serverTime |-> calibrations[i].serverTime,
             before |-> serverTimeOffset, previousAt |-> lastSyncTimeRef]
  /\ calibrations' = Remove(calibrations, i)
  /\ RenderIfOffsetChanged
  /\ ev' = NoEv
  /\ NoPlay
  /\ UNCHANGED <<props, server, cluster, calc, lastTimerSync, now, tokenState, playerReady, state, isLoading, player,
                 resumeTimers, endedSeen, endedHandled, mounted, userSeek, clockTimers>>

\* fetchServerTime() rejects for call i (the request fails, or the body is
\* not JSON): the catch block of calibrateTime.
CalibrateFails(i) ==
  /\ i \in 1..Len(calibrations)
  /\ setServerTimeOffset(0)
  /\ cal' = [by |-> "failure", before |-> serverTimeOffset]
  /\ calibrations' = Remove(calibrations, i)
  /\ RenderIfOffsetChanged
  /\ ev' = NoEv
  /\ NoPlay
  /\ UNCHANGED <<props, server, cluster, calc, lastTimerSync, now, lastSyncTimeRef, expectedElapsedRef, tokenState,
                 playerReady, state, isLoading, player, resumeTimers, endedSeen,
                 endedHandled, mounted, userSeek, clockTimers>>

\* The 60 s interval fires: calibrateTime().
RecalibrationFires(limit) ==
  /\ Due(recalibrationInterval)
  /\ recalibrationInterval' = {now + RecalibrationInterval}
  /\ calibrateTime(limit)
  /\ ev' = NoEv
  /\ cal' = NoCal
  /\ NoRender
  /\ NoPlay
  /\ UNCHANGED <<props, server, cluster, calc, lastTimerSync, now, serverTimeOffset, lastSyncTimeRef, expectedElapsedRef,
                 tokenState, playerReady, state, isLoading, player, resumeTimers,
                 endedSeen, endedHandled, mounted, userSeek, clockCheckInterval,
                 previousTick>>

\* The heartbeat interval fires: the time since the last calibration is
\* compared with the ticks counted since, and calibrateTime() is called when
\* they differ by more than the threshold.
ClockCheckFires(limit) ==
  /\ Due(clockCheckInterval)
  /\ clockCheckInterval' = {now + HeartbeatInterval}
  /\ LET actualElapsed == now - lastSyncTimeRef
         expectedElapsed == expectedElapsedRef + HeartbeatInterval
         recalibrate == MathAbs(actualElapsed - expectedElapsed) > HeartbeatThreshold
     IN  /\ expectedElapsedRef' = expectedElapsed
         /\ IF recalibrate THEN calibrateTime(limit) ELSE UNCHANGED calibrations
         /\ cal' = [by |-> "heartbeat", sincePrevious |-> now - previousTick,
                    recalibrated |-> recalibrate]
  /\ previousTick' = now
  /\ ev' = NoEv
  /\ NoRender
  /\ NoPlay
  /\ UNCHANGED <<props, server, cluster, calc, lastTimerSync, now, serverTimeOffset, lastSyncTimeRef, tokenState,
                 playerReady, state, isLoading, player, resumeTimers, endedSeen,
                 endedHandled, mounted, userSeek, recalibrationInterval>>

----------------------------------------------------------------------------
(* The fetchTokens effect (signed playback) *)

TokenErrorText == "Unable to load signed video"

\* GET /api/tokens/<playbackId> answers ok: setTokens(data), setTokenError(null).
FetchTokensSucceeds ==
  /\ tokenFetch = "pending"
  /\ tokens' = IF mounted THEN "tokens" ELSE tokens
  /\ tokenError' = IF mounted THEN Null ELSE tokenError
  /\ tokenFetch' = "done"
  /\ IF mounted THEN Render(state) ELSE NoRender
  /\ ev' = NoEv
  /\ cal' = NoCal
  /\ NoPlay
  /\ UNCHANGED <<props, server, cluster, calc, lastTimerSync, now, clockState, playerReady, state, isLoading, player,
                 resumeTimers, endedSeen, endedHandled, mounted, userSeek, clockTimers>>

\* The request fails or answers not ok: the catch block.
FetchTokensFails ==
  /\ tokenFetch = "pending"
  /\ tokenError' = IF mounted THEN TokenErrorText ELSE tokenError
  /\ tokenFetch' = "failed"
  /\ IF mounted THEN Render(state) ELSE NoRender
  /\ ev' = NoEv
  /\ cal' = NoCal
  /\ NoPlay
  /\ UNCHANGED <<props, server, cluster, calc, lastTimerSync, now, clockState, playerReady, state, isLoading, player,
                 resumeTimers, endedSeen, endedHandled, tokens, mounted, userSeek, clockTimers>>

----------------------------------------------------------------------------
(* The player element and its user: the environment of the session *)

MediaEnd == Thousandths(videoDuration)

SeekTargets == {0, MediaEnd \div 2, MediaEnd}

\* Playback starts: autoPlay="muted" once the media is loaded, or the user
\* presses play.
PlayerPlays ==
  /\ PlayerMounted /\ playerReady
  /\ paused
  /\ paused' = FALSE
  /\ ev' = NoEv
  /\ cal' = NoCal
  /\ NoRender
  /\ NoPlay
  /\ UNCHANGED <<props, server, cluster, calc, lastTimerSync, now, clockState, tokenState, playerReady, state,
                 isLoading, cursor, seekingEvents, pauseEvents, resumeTimers,
                 endedSeen, endedHandled, mounted, userSeek, clockTimers>>

\* The user pauses the player: a "pause" event is queued.
UserPauses ==
  /\ PlayerMounted /\ playerReady
  /\ ~paused
  /\ pauseEvents < MaxEvents
  /\ paused' = TRUE
  /\ pauseEvents' = pauseEvents + 1
  /\ ev' = NoEv
  /\ cal' = NoCal
  /\ NoRender
  /\ NoPlay
  /\ UNCHANGED <<props, server, cluster, calc, lastTimerSync, now, clockState, tokenState, playerReady, state,
                 isLoading, cursor, seekingEvents, resumeTimers, endedSeen,
                 endedHandled, mounted, userSeek, clockTimers>>

\* The user seeks to position p: a "seeking" event is queued.
UserSeeks(p) ==
  /\ PlayerMounted /\ playerReady
  /\ seekingEvents < MaxEvents
  /\ p # cursor
  /\ cursor' = p
  /\ seekingEvents' = seekingEvents + 1
  /\ userSeek' = TRUE
  /\ ev' = NoEv
  /\ cal' = NoCal
  /\ NoRender
  /\ NoPlay
  /\ UNCHANGED <<props, server, cluster, calc, lastTimerSync, now, clockState, tokenState, playerReady, state,
                 isLoading, paused, pauseEvents, resumeTimers, endedSeen,
                 endedHandled, mounted, clockTimers>>

PendingTimers == initialTimer \cup intervalId \cup countdownTimer \cup resumeTimers

\* TickMs of time pass: no timer is left waiting more than MaxLateMs past its
\* deadline, no clock request more than MaxRequestLatency, no clock response
\* more than MaxReturnLatency, and no "pause"
\* event is left undelivered.  A playing player advances its cursor with the
\* time, or stalls (buffering); a player that reaches the end of the media
\* pauses itself and queues a "pause" event.
Advance ==
  /\ now + TickMs <= MaxNow
  /\ pauseEvents = 0
  /\ \A deadline \in PendingTimers : now + TickMs <= deadline + MaxLateMs
  /\ \A i \in 1..Len(calibrations) :
        IF calibrations[i].answered
        THEN now + TickMs - (calibrations[i].serverTime - skew) <= MaxReturnLatency
        ELSE now + TickMs - calibrations[i].sentAt <= MaxRequestLatency
  /\ now' = now + TickMs
  /\ IF PlayerMounted /\ playerReady /\ ~paused
     THEN \E stalled \in BOOLEAN :
            LET next == IF stalled THEN cursor ELSE MathMin(cursor + TickMs, MediaEnd)
                atEnd == next >= MediaEnd
            IN  /\ cursor' = next
                /\ paused' = atEnd
                /\ pauseEvents' = IF atEnd THEN Enqueue(pauseEvents) ELSE pauseEvents
     ELSE UNCHANGED <<cursor, paused, pauseEvents>>
  /\ ev' = NoEv
  /\ cal' = NoCal
  /\ NoRender
  /\ NoPlay
  /\ UNCHANGED <<props, server, cluster, calc, lastTimerSync, clockState, tokenState, playerReady, state, isLoading,
                 seekingEvents, resumeTimers, endedSeen, endedHandled, mounted, userSeek, clockTimers>>

\* The component is unmounted (the page is left): the cleanups of the
\* effects clear the sync timers and the countdown interval, the event
\* handlers go with the player element, and the states of the component are
\* discarded.  The timeouts of handlePause have no cleanup; calibrateTime
\* and fetchTokens calls under way run on.
Unmount ==
  /\ mounted
  /\ mounted' = FALSE
  /\ lastTimerSync' = {}
  /\ initialTimer' = NoTimer
  /\ intervalId' = NoTimer
  /\ countdownTimer' = NoTimer
  /\ seekingEvents' = 0
  /\ pauseEvents' = 0
  /\ state' = NullState
  /\ isLoading' = TRUE
  /\ playerReady' = FALSE
  /\ tokens' = Null
  /\ tokenError' = Null
  /\ serverTimeOffset' = 0
  /\ userSeek' = FALSE
  /\ recalibrationInterval' = NoTimer
  /\ clockCheckInterval' = NoTimer
  /\ ev' = NoEv
  /\ cal' = NoCal
  /\ NoPlay
  /\ UNCHANGED <<props, server, cluster, calc, now, lastSyncTimeRef, expectedElapsedRef, calibrations,
                 tokenFetch, resumeTimers, cursor, paused, endedSeen,
                 endedHandled, previousTick>>

----------------------------------------------------------------------------

\* ClockStepMs of time pass on the clock side of the session: the intervals
\* of the recalibration and of the heartbeat fire at most ClockMaxLateMs late
\* (a throttled or suspended tab), and a round trip to the clock endpoint,
\* short against the step, is over.
ClockAdvance ==
  /\ now + ClockStepMs <= ClockMaxNow
  /\ calibrations = << >>
  /\ \A deadline \in recalibrationInterval \cup clockCheckInterval :
        now + ClockStepMs <= deadline + ClockMaxLateMs
  /\ now' = now + ClockStepMs
  /\ ev' = NoEv
  /\ cal' = NoCal
  /\ NoRender
  /\ NoPlay
  /\ UNCHANGED <<props, server, cluster, calc, lastTimerSync, clockState, tokenState, playerReady, state, isLoading,
                 player, resumeTimers, endedSeen, endedHandled, mounted, userSeek,
                 clockTimers>>

\* The streams and clocks a session is started with: the props of the
\* component (a duration of 0 and a tolerance of 0 among them) and the skew
\* of the client's clock.
Scenario(start, duration, tolerance, policy, clockSkew) ==
  [start |-> start, duration |-> duration, interval |-> 1000,
   tolerance |-> tolerance, policy |-> policy, skew |-> clockSkew]

Scenarios ==
  { Scenario(500, 1, 0, "public", 0),
    Scenario(500, 1, 1, "public", 1000),
    Scenario(500, 0, 0, "signed", 0) }

\* The state after the first render and its effects: calibrateTime() is under
\* way, both sync timers are set, a signed stream has asked for its tokens.
Mounted(scenarios) ==
  /\ \E sc \in scenarios :
        /\ scheduledStartMs = sc.start
        /\ videoDuration = sc.duration
        /\ syncInterval = sc.interval
        /\ driftTolerance = sc.tolerance
        /\ playbackPolicy = sc.policy
        /\ skew = sc.skew
  /\ now = 0
  /\ serverTimeOffset = 0
  /\ lastSyncTimeRef = 0
  /\ expectedElapsedRef = 0
  /\ state = NullState
  /\ isLoading = TRUE
  /\ playerReady = FALSE
  /\ tokens = Null
  /\ tokenError = Null
  /\ tokenFetch = IF playbackPolicy = "signed" THEN "pending" ELSE "none"
  /\ calibrations = <<Awaiting(0)>>
  /\ initialTimer = {InitialSyncDelay}
  /\ intervalId = {syncInterval}
  /\ countdownTimer = NoTimer
  /\ resumeTimers = {}
  /\ cursor = 0
  /\ paused = TRUE
  /\ seekingEvents = 0
  /\ pauseEvents = 0
  /\ ev = NoEv
  /\ endedSeen = FALSE
  /\ endedHandled = FALSE
  /\ mounted = TRUE
  /\ playCalled = FALSE
  /\ userSeek = FALSE
  /\ recalibrationInterval = {RecalibrationInterval}
  /\ clockCheckInterval = {HeartbeatInterval}
  /\ previousTick = 0
  /\ cal = NoCal
  /\ lastTimerSync = {}
  /\ calc = NoCalc

Init == Mounted(Scenarios) /\ NoServer /\ PrimaryStarted

Next ==
  \/ Advance
  \/ InitialTimerFires
  \/ SyncIntervalFires
  \/ CountdownFires
  \/ handleLoadedMetadata
  \/ handleSeeking
  \/ handlePause
  \/ \E deadline \in resumeTimers : ResumeTimerFires(deadline)
  \/ handleVisibilityChange(1)
  \/ \E i \in DOMAIN calibrations : ClockAnswers(i)
  \/ \E i \in DOMAIN calibrations : CalibrateSucceeds(i)
  \/ \E i \in DOMAIN calibrations : CalibrateFails(i)
  \/ FetchTokensSucceeds
  \/ FetchTokensFails
  \/ PlayerPlays
  \/ UserPauses
  \/ \E p \in SeekTargets : UserSeeks(p)
  \/ Unmount

\* Spec follows one calibrateTime call at a time: the page becomes visible
\* only while no call is under way.  Overlapping calls are followed in
\* CalSpec, the intervals of the recalibration and of the heartbeat, which
\* first fire after 60 s and 5 s, in ClockSpec.
Spec == Init /\ [][Next]_vars

\* A signed stream whose tokens have not arrived: the player is not rendered
\* and syncPlayer returns at once, so only the clock side of the session acts.
ClockScenarios ==
  { Scenario(500, 1, 0, "signed", 1000) }

InitClock == Mounted(ClockScenarios) /\ NoServer /\ PrimaryStarted

\* The calibrations of the session, overlapping ones among them.
NextCalibration ==
  \/ Advance
  \/ InitialTimerFires
  \/ SyncIntervalFires
  \/ handleVisibilityChange(MaxInFlight)
  \/ \E i \in DOMAIN calibrations : ClockAnswers(i)
  \/ \E i \in DOMAIN calibrations : CalibrateSucceeds(i)
  \/ \E i \in DOMAIN calibrations : CalibrateFails(i)

CalSpec == InitClock /\ [][NextCalibration]_vars

\* The clock side of the session over minutes: the triggers of calibrateTime
\* (mount, visibility, the 60 s interval, the heartbeat) and its completions.
\* The sync loop, which reads serverTimeOffset and writes nothing of the
\* clock side, is left aside.
NextClock ==
  \/ ClockAdvance
  \/ handleVisibilityChange(MaxInFlight)
  \/ RecalibrationFires(MaxInFlight)
  \/ ClockCheckFires(MaxInFlight)
  \/ \E i \in DOMAIN calibrations : ClockAnswers(i)
  \/ \E i \in DOMAIN calibrations : CalibrateSucceeds(i)
  \/ \E i \in DOMAIN calibrations : CalibrateFails(i)

ClockSpec == InitClock /\ [][NextClock]_vars

\* A stream that is still live when the session has been followed for MaxNow
\* ms, and one that ends before.
\* The times (ms) of the calls of CalculateSpec.
CallTimes == { t \in 0..MaxNow : t % TickMs = 0 }

\* calculateSimuliveState is called, apart from a session, on a synced time
\* and a scheduledStart that may be NaN and unparsable.
Calculate ==
  /\ \E serverTimeMs \in {NaN} \cup { Num(t) : t \in CallTimes },
        scheduledStart \in {Unparsable} \cup { DateString(t) : t \in CallTimes },
        duration \in 0..MaxDuration :
        calc' = [by |-> "calculateSimuliveState", serverTimeMs |-> serverTimeMs,
                 scheduledStart |-> scheduledStart, videoDuration |-> duration,
                 st |-> calculateSimuliveStateOfNumbers(serverTimeMs,
                                                        scheduledStart, duration)]
  /\ UNCHANGED <<props, server, cluster, now, clockState, tokenState, playerReady, state,
                 isLoading, player, resumeTimers, endedSeen, endedHandled,
                 mounted, userSeek, clockTimers, initialTimer, intervalId,
                 countdownTimer, ev, cal, playCalled, lastTimerSync>>

\* calibrateTime runs, apart from a session, on a response of the clock
\* endpoint that may lack serverTime; getSyncedTime() then reads the offset.
CalibrateOnNumbers ==
  /\ \E body \in {BodyWithoutServerTime, NotJson} \cup { TimeBody(t) : t \in CallTimes },
        dateNow \in CallTimes :
        LET offset == calibrateTimeOfNumbers(body, dateNow)
        IN  calc' = [by |-> "calibrateTime", body |-> body, now |-> dateNow,
                     offset |-> offset, syncedTime |-> Plus(Num(dateNow), offset)]
  /\ UNCHANGED <<props, server, cluster, now, clockState, tokenState, playerReady, state,
                 isLoading, player, resumeTimers, endedSeen, endedHandled,
                 mounted, userSeek, clockTimers, initialTimer, intervalId,
                 countdownTimer, ev, cal, playCalled, lastTimerSync>>

InitCalculate == Mounted({ Scenario(500, 1, 0, "public", 0) }) /\ NoServer /\ PrimaryStarted

NextCalculate == Calculate \/ CalibrateOnNumbers

CalculateSpec == InitCalculate /\ [][NextCalculate]_vars

LongScenarios ==
  { Scenario(500, 3, 0, "public", 0),
    Scenario(500, 1, 0, "public", 0) }

InitLong == Mounted(LongScenarios) /\ NoServer /\ PrimaryStarted

\* The scheduling of the browser: time passes, a timer that is due fires, a
\* queued event is delivered, a request that has been answered ends (its
\* response arrives or is lost).  What the user and the page do (play, pause,
\* seek, visibility, unmount) is not forced.
Fairness ==
  /\ WF_vars(Advance)
  /\ WF_vars(\E i \in DOMAIN calibrations : CalibrateSucceeds(i) \/ CalibrateFails(i))
  /\ WF_vars(InitialTimerFires)
  /\ WF_vars(SyncIntervalFires)
  /\ WF_vars(CountdownFires)
  /\ WF_vars(\E deadline \in resumeTimers : ResumeTimerFires(deadline))
  /\ WF_vars(handleSeeking)
  /\ WF_vars(handlePause)

\* The session of a user who plays and pauses, on a page that stays visible
\* and mounted.
NextWatching ==
  \/ Advance
  \/ InitialTimerFires
  \/ SyncIntervalFires
  \/ CountdownFires
  \/ handleLoadedMetadata
  \/ handleSeeking
  \/ handlePause
  \/ \E deadline \in resumeTimers : ResumeTimerFires(deadline)
  \/ \E i \in DOMAIN calibrations : ClockAnswers(i)
  \/ \E i \in DOMAIN calibrations : CalibrateSucceeds(i)
  \/ \E i \in DOMAIN calibrations : CalibrateFails(i)
  \/ PlayerPlays
  \/ UserPauses

FairSpec == InitLong /\ [][NextWatching]_vars /\ Fairness

\* The same session with the timer-driven runs of syncPlayer recorded.
NextSyncLoop ==
  \/ Advance
  \/ InitialTimerRuns(TRUE)
  \/ SyncIntervalRuns(TRUE)
  \/ CountdownFires
  \/ handleLoadedMetadata
  \/ handleSeeking
  \/ handlePause
  \/ \E deadline \in resumeTimers : ResumeTimerFires(deadline)
  \/ \E i \in DOMAIN calibrations : ClockAnswers(i)
  \/ \E i \in DOMAIN calibrations : CalibrateSucceeds(i)
  \/ \E i \in DOMAIN calibrations : CalibrateFails(i)
  \/ PlayerPlays
  \/ UserPauses

SyncLoopSpec == InitLong /\ [][NextSyncLoop]_vars

----------------------------------------------------------------------------
(* The server: src/unnamed/part_000 (lib/auth.ts), src/src/lib/redis.ts,   *)
(* and the route handlers.  Redis, where it is configured, is reachable.   *)

\* The value of the cookie simulive_admin of a request: a token of the
\* right length, a value of another length, or no cookie.
NoCookie == "none"
Malformed == "malformed"
Cookies == Tokens \cup {NoCookie, Malformed}

isAdminAuthRequired == adminPasswordSet

\* redis.exists("session:" + sessionId) === 1
validateSession(sessionId) == sessionId \in sessions

\* A token is 64 hexadecimal characters; without Redis every value of that
\* length is accepted.
validateAdminSession(sessionToken) ==
  IF sessionToken \notin Tokens THEN FALSE
  ELSE IF ~redisConfigured THEN TRUE
  ELSE validateSession(sessionToken)

isApiAuthenticated(cookie) ==
  IF ~isAdminAuthRequired THEN TRUE
  ELSE IF cookie = NoCookie THEN FALSE
  ELSE validateAdminSession(cookie)

\* What a response leaves in res: the handler, the status, the cookie of the
\* request, what isApiAuthenticated says of it, and the store and the
\* sessions as the request found them.
Response(by, status, cookie) ==
  [by |-> by, status |-> status, cookie |-> cookie,
   admin |-> isApiAuthenticated(cookie), before |-> streams]

authState == <<adminPasswordSet, redisConfigured, sessions, issued, loggedOut>>
rateLimit == <<loginAttempts, loginExpiry, logins, verified>>

Stream(id, isActive) == [id |-> id, isActive |-> isActive]

StreamExists(id) == \E stream \in streams : stream.id = id

\* POST /api/streams: a stream with the slug id is created, inactive.
\* valid: the body has its fields, the slug is well formed and the asset is
\* ready at Mux.
PostStream(cookie, id, valid) ==
  /\ IF ~isApiAuthenticated(cookie)
     THEN res' = Response("POST /api/streams", 401, cookie) /\ UNCHANGED streams
     ELSE IF ~valid
     THEN res' = Response("POST /api/streams", 400, cookie) /\ UNCHANGED streams
     ELSE IF StreamExists(id)
     THEN res' = Response("POST /api/streams", 409, cookie) /\ UNCHANGED streams
     ELSE /\ streams' = streams \cup {Stream(id, FALSE)}
          /\ res' = Response("POST /api/streams", 201, cookie)
  /\ UNCHANGED <<client, cluster, authState, rateLimit>>

\* PATCH /api/streams/[id]: the fields of the body are written to the
\* record; prisma.stream.update throws when there is no such record.
PatchStream(cookie, id, isActive, valid) ==
  /\ IF ~valid
     THEN res' = Response("PATCH /api/streams/[id]", 400, cookie) /\ UNCHANGED streams
     ELSE IF ~StreamExists(id)
     THEN res' = Response("PATCH /api/streams/[id]", 500, cookie) /\ UNCHANGED streams
     ELSE /\ streams' = { IF stream.id = id THEN Stream(id, isActive) ELSE stream :
                            stream \in streams }
          /\ res' = Response("PATCH /api/streams/[id]", 200, cookie)
  /\ UNCHANGED <<client, cluster, authState, rateLimit>>

\* DELETE /api/streams/[id]: prisma.stream.delete throws when there is no
\* such record.
DeleteStream(cookie, id) ==
  /\ IF ~StreamExists(id)
     THEN res' = Response("DELETE /api/streams/[id]", 500, cookie) /\ UNCHANGED streams
     ELSE /\ streams' = { stream \in streams : stream.id # id }
          /\ res' = Response("DELETE /api/streams/[id]", 200, cookie)
  /\ UNCHANGED <<client, cluster, authState, rateLimit>>

\* POST /api/admin/logout: deleteAdminSession removes the session from
\* Redis, if Redis is configured.
Logout(cookie) ==
  /\ sessions' = IF cookie # NoCookie /\ redisConfigured
                 THEN sessions \ {cookie}
                 ELSE sessions
  /\ loggedOut' = loggedOut \cup ({cookie} \cap issued)
  /\ res' = Response("POST /api/admin/logout", 200, cookie)
  /\ UNCHANGED <<client, cluster, adminPasswordSet, redisConfigured, issued, streams,
                 rateLimit>>

\* checkLoginRateLimit: whether a request whose INCR answered attempts is
\* let through, one more than the limit included.
allowed_OneMore(attempts) == attempts <= MaxLoginAttempts + 1

\* checkLoginRateLimit: whether the request whose INCR answered attempts is
\* let through to the password check.
allowed(attempts) == ~(attempts > MaxLoginAttempts)

\* verifyAdminPassword: without an admin password every password passes.
verifyAdminPassword(password) ==
  IF ~adminPasswordSet THEN TRUE ELSE password = "correct"

LoginRequest(ip, password, attempts, pc, token) ==
  [ip |-> ip, password |-> password, attempts |-> attempts, pc |-> pc,
   token |-> token]

\* What a response of the login route leaves in res.
LoginResponse(login, status, passwordChecked) ==
  [by |-> "POST /api/admin/login", status |-> status, ip |-> login.ip,
   attempts |-> login.attempts, passwordChecked |-> passwordChecked,
   limited |-> redisConfigured, others |-> logins \ {login}]

\* POST /api/admin/login arrives from ip: checkLoginRateLimit increments the
\* counter of the IP (INCR is atomic).  Without Redis nothing is counted.
LoginArrives(ip, password, limit) ==
  /\ Cardinality(logins) < limit
  /\ IF redisConfigured
     THEN LET attempts == loginAttempts[ip] + 1
          IN  /\ attempts <= MaxCounted
              /\ loginAttempts' = [loginAttempts EXCEPT ![ip] = attempts]
              /\ verified' = IF allowed(attempts)
                             THEN [verified EXCEPT ![ip] = @ + 1]
                             ELSE verified
              /\ logins' = logins \cup
                   {LoginRequest(ip, password, attempts,
                                 IF attempts = 1 THEN "expire" ELSE "check", NoCookie)}
     ELSE /\ LoginRequest(ip, password, 0, "check", NoCookie) \notin logins
          /\ logins' = logins \cup {LoginRequest(ip, password, 0, "check", NoCookie)}
          /\ UNCHANGED <<loginAttempts, verified>>
  /\ res' = NoRes
  /\ UNCHANGED <<client, cluster, authState, streams, loginExpiry>>

\* The request that created the counter sets its time to live:
\* redis.expire(key, RATE_LIMIT_WINDOW), which does nothing if the key is
\* gone.
LoginSetsExpiry(login) ==
  /\ login \in logins /\ login.pc = "expire"
  /\ loginExpiry' = [loginExpiry EXCEPT ![login.ip] = loginAttempts[login.ip] > 0]
  /\ logins' = (logins \ {login}) \cup {[login EXCEPT !.pc = "check"]}
  /\ res' = NoRes
  /\ UNCHANGED <<client, cluster, authState, streams, loginAttempts, verified>>

\* The rest of the handler up to createAdminSession: 429 for a request over
\* the limit, 400 for a body without a password, 401 for a wrong password;
\* for the right one createAdminSession draws a new token and, with Redis,
\* stores its session.
LoginChecks(login) ==
  /\ login \in logins /\ login.pc = "check"
  /\ IF redisConfigured /\ ~allowed(login.attempts)
     THEN /\ res' = LoginResponse(login, 429, FALSE)
          /\ logins' = logins \ {login}
          /\ UNCHANGED <<sessions, issued>>
     ELSE IF login.password = "missing"
     THEN /\ res' = LoginResponse(login, 400, FALSE)
          /\ logins' = logins \ {login}
          /\ UNCHANGED <<sessions, issued>>
     ELSE IF ~verifyAdminPassword(login.password)
     THEN /\ res' = LoginResponse(login, 401, TRUE)
          /\ logins' = logins \ {login}
          /\ UNCHANGED <<sessions, issued>>
     ELSE \E sessionToken \in Tokens \ issued :
            /\ issued' = issued \cup {sessionToken}
            /\ sessions' = IF redisConfigured THEN sessions \cup {sessionToken}
                                              ELSE sessions
            /\ logins' = (logins \ {login}) \cup
                           {[login EXCEPT !.pc = "reset", !.token = sessionToken]}
            /\ res' = NoRes
  /\ UNCHANGED <<client, cluster, adminPasswordSet, redisConfigured, loggedOut, streams,
                 loginAttempts, loginExpiry, verified>>

\* resetLoginRateLimit deletes the counter of the IP (with Redis), and the
\* response sets the cookie.
LoginResets(login) ==
  /\ login \in logins /\ login.pc = "reset"
  /\ IF redisConfigured
     THEN /\ loginAttempts' = [loginAttempts EXCEPT ![login.ip] = 0]
          /\ loginExpiry' = [loginExpiry EXCEPT ![login.ip] = FALSE]
          /\ verified' = [verified EXCEPT ![login.ip] = 0]
     ELSE UNCHANGED <<loginAttempts, loginExpiry, verified>>
  /\ logins' = logins \ {login}
  /\ res' = LoginResponse(login, 200, TRUE)
  /\ UNCHANGED <<client, cluster, authState, streams>>

\* The counter of an IP expires in Redis, RATE_LIMIT_WINDOW after its time
\* to live was set.
RateLimitExpires(ip) ==
  /\ loginAttempts[ip] > 0 /\ loginExpiry[ip]
  /\ loginAttempts' = [loginAttempts EXCEPT ![ip] = 0]
  /\ loginExpiry' = [loginExpiry EXCEPT ![ip] = FALSE]
  /\ verified' = [verified EXCEPT ![ip] = 0]
  /\ res' = NoRes
  /\ UNCHANGED <<client, cluster, authState, streams, logins>>

\* The key of a session expires in Redis (SESSION_TTL).
SessionExpires(token) ==
  /\ token \in sessions
  /\ sessions' = sessions \ {token}
  /\ res' = NoRes
  /\ UNCHANGED <<client, cluster, adminPasswordSet, redisConfigured, issued, loggedOut,
                 streams, rateLimit>>

\* The server starts with or without an admin password and with or without
\* Redis; no session of a viewer is followed.
InitServer ==
  /\ Mounted({ Scenario(500, 1, 0, "public", 0) })
  /\ adminPasswordSet \in BOOLEAN
  /\ redisConfigured \in BOOLEAN
  /\ sessions = {}
  /\ issued = {}
  /\ loggedOut = {}
  /\ streams = {}
  /\ loginAttempts = [ip \in Ips |-> 0]
  /\ loginExpiry = [ip \in Ips |-> FALSE]
  /\ logins = {}
  /\ verified = [ip \in Ips |-> 0]
  /\ res = NoRes
  /\ PrimaryStarted

\* The stream endpoints and the sessions of the admin, who logs in with the
\* right password or with none, one request at a time.
NextApi ==
  \/ \E cookie \in Cookies, id \in StreamIds, valid \in BOOLEAN :
        PostStream(cookie, id, valid)
  \/ \E cookie \in Cookies, id \in StreamIds, isActive \in BOOLEAN, valid \in BOOLEAN :
        PatchStream(cookie, id, isActive, valid)
  \/ \E cookie \in Cookies, id \in StreamIds : DeleteStream(cookie, id)
  \/ \E cookie \in Cookies : Logout(cookie)
  \/ \E token \in Tokens : SessionExpires(token)
  \/ \E password \in {"correct", "missing"} : LoginArrives("ip1", password, 1)
  \/ \E login \in logins : LoginSetsExpiry(login)
  \/ \E login \in logins : LoginChecks(login)
  \/ \E login \in logins : LoginResets(login)

ApiSpec == InitServer /\ [][NextApi]_vars

\* The login route under concurrent requests of two IPs: one that knows the
\* password and also gets it wrong, one that only gets it wrong.
NextLogin ==
  \/ \E password \in {"correct", "wrong"} : LoginArrives("ip1", password, MaxLogins)
  \/ LoginArrives("ip2", "wrong", MaxLogins)
  \/ \E login \in logins : LoginSetsExpiry(login)
  \/ \E login \in logins : LoginChecks(login)
  \/ \E login \in logins : LoginResets(login)
  \/ \E ip \in Ips : RateLimitExpires(ip)

LoginSpec == InitServer /\ [][NextLogin]_vars

----------------------------------------------------------------------------
(* The cluster primary: src/unnamed/part_011 (server.js)                   *)

\* spawnWorker(): cluster.fork() starts a worker under the next id.
spawnWorker(remaining, slot) ==
  /\ ids' = ids + 1
  /\ workers' = remaining \cup {Worker(ids + 1, slot)}

\* spawns.filter((t) => now - t < RESPAWN_WINDOW)
RecentSpawns(spawns) ==
  SelectSeq(spawns, LAMBDA t : clusterNow - t < RESPAWN_WINDOW)

\* What the "exit" handler leaves in forked: whether a shutdown signal had
\* been received, and whether the handler forked.
Exit(worker, respawned) ==
  [by |-> "exit", afterSignal |-> exitTimers # {}, respawned |-> respawned]

\* cluster.on("exit"): a worker has exited, by a crash or by the signal of a
\* shutdown handler.  The Map is read under the id of the worker that
\* exited; a key that is not in the Map reads as [].  The model follows
\* MaxForks forks.
WorkerExits(worker) ==
  /\ ~primaryExited
  /\ worker \in workers
  /\ ids < NUM_WORKERS + MaxForks
  /\ killed' = killed \ {worker.id}
  /\ LET workerId == worker.id
         spawns == workerSpawns[workerId]
         recentSpawns == RecentSpawns(spawns)
     IN  IF Len(recentSpawns) >= MAX_RESPAWNS
         THEN /\ backoffTimers' = backoffTimers \cup
                   {[workerId |-> workerId, slot |-> worker.slot,
                     deadline |-> clusterNow + BackoffDelay]}
              /\ workers' = workers \ {worker}
              /\ forked' = Exit(worker, FALSE)
              /\ UNCHANGED <<ids, workerSpawns, immediate>>
         ELSE /\ workerSpawns' = [workerSpawns EXCEPT
                                    ![workerId] = Append(recentSpawns, clusterNow)]
              /\ spawnWorker(workers \ {worker}, worker.slot)
              /\ immediate' = [immediate EXCEPT
                                 ![worker.slot] = Append(@, clusterNow)]
              /\ forked' = Exit(worker, TRUE)
              /\ UNCHANGED backoffTimers
  /\ UNCHANGED <<client, server, clusterNow, exitTimers, primaryExited>>

\* The timeout of the back-off: the list of the worker id is emptied and a
\* worker is forked.
BackoffTimerFires(timer) ==
  /\ ~primaryExited
  /\ timer \in backoffTimers
  /\ clusterNow >= timer.deadline
  /\ ids < NUM_WORKERS + MaxForks
  /\ backoffTimers' = backoffTimers \ {timer}
  /\ workerSpawns' = [workerSpawns EXCEPT ![timer.workerId] = << >>]
  /\ spawnWorker(workers, timer.slot)
  /\ forked' = [by |-> "backoff", afterSignal |-> exitTimers # {},
                respawned |-> TRUE]
  /\ UNCHANGED <<client, server, clusterNow, killed, exitTimers, primaryExited,
                 immediate>>

\* setTimeout(() => process.exit(0), ...) of the shutdown handlers.
ShutdownDelay(signal) == IF signal = "SIGTERM" THEN 10000 ELSE 5000

\* process.on(signal): every worker of cluster.workers is sent the signal,
\* and process.exit(0) is set for later.  The "exit" handler stays
\* registered.
Shutdown(signal) ==
  /\ ~primaryExited
  /\ clusterNow + ShutdownDelay(signal) \notin exitTimers
  /\ killed' = killed \cup { worker.id : worker \in workers }
  /\ exitTimers' = exitTimers \cup {clusterNow + ShutdownDelay(signal)}
  /\ forked' = NoFork
  /\ UNCHANGED <<client, server, clusterNow, workers, ids, workerSpawns,
                 backoffTimers, primaryExited, immediate>>

\* process.exit(0)
PrimaryExits(deadline) ==
  /\ ~primaryExited
  /\ deadline \in exitTimers
  /\ clusterNow >= deadline
  /\ primaryExited' = TRUE
  /\ forked' = NoFork
  /\ UNCHANGED <<client, server, clusterNow, workers, ids, workerSpawns,
                 backoffTimers, killed, exitTimers, immediate>>

\* ClusterTickMs pass at the primary; its timeouts fire on time.
ClusterAdvance ==
  /\ ~primaryExited
  /\ clusterNow + ClusterTickMs <= ClusterMaxNow
  /\ \A deadline \in exitTimers : clusterNow < deadline
  /\ \A timer \in backoffTimers : clusterNow < timer.deadline
  /\ clusterNow' = clusterNow + ClusterTickMs
  /\ forked' = NoFork
  /\ UNCHANGED <<client, server, workers, ids, workerSpawns, backoffTimers,
                 killed, exitTimers, primaryExited, immediate>>

InitCluster ==
  Mounted({ Scenario(500, 1, 0, "public", 0) }) /\ NoServer /\ PrimaryStarted

\* The primary, its workers exiting at any time, and the shutdown signals.
\* The timeout of the back-off is no step of it: no "exit" handler sets one
\* (the Map has no entry under the id of a worker that has not exited
\* before, and no id is given twice).
NextCluster ==
  \/ \E worker \in workers : WorkerExits(worker)
  \/ \E signal \in {"SIGTERM", "SIGINT"} : Shutdown(signal)
  \/ \E deadline \in exitTimers : PrimaryExits(deadline)
  \/ ClusterAdvance

ClusterSpec == InitCluster /\ [][NextCluster]_vars

----------------------------------------------------------------------------
(* The claims.  A state with ev.by # "none" is the state right after an    *)
(* evaluation: ev holds what the evaluation read and computed, the other   *)
(* variables what it left.                                                 *)

Evaluated == ev.by # "none"

\* elapsedSeconds of the evaluation in ev, in thousandths
Elapsed == ev.syncedTime - scheduledStartMs

Duration == Thousandths(videoDuration)

Count(b) == IF b THEN 1 ELSE 0

ExactlyOnePhase(st) ==
  Count(st.secondsUntilStart > 0) + Count(st.isLive) + Count(st.hasEnded) = 1

C2_PreRoll ==
  Evaluated /\ Elapsed < 0 =>
    /\ ev.st.isLive = FALSE
    /\ ev.st.hasEnded = FALSE
    /\ ev.st.currentPosition = 0
    /\ ev.st.secondsUntilStart = 0 - Elapsed

\* A syncPlayer call before the scheduled start.
C2_Witness == Evaluated /\ ev.sync /\ Elapsed < 0

C4_Ended ==
  Evaluated /\ Elapsed >= Duration =>
    /\ ev.st.hasEnded = TRUE
    /\ ev.st.isLive = FALSE
    /\ ev.st.currentPosition = Duration
    /\ ev.st.secondsRemaining = 0

\* An evaluation of a stream of duration 0 at its scheduled start.
C4_Witness == Evaluated /\ videoDuration = 0 /\ Elapsed = 0

\* the distance of the cursor the evaluation found from the expected position
Divergence ==
  IF ev.actual >= ev.st.currentPosition
  THEN ev.actual - ev.st.currentPosition
  ELSE ev.st.currentPosition - ev.actual

\* C6: hasDrifted(actual, expected, tolerance) is true exactly when
\* |actual - expected| is strictly greater than the tolerance: every call
\* syncPlayer makes of it answers so.
C6_HasDrifted ==
  Evaluated /\ ev.sync /\ ev.st.isLive =>
    (ev.drifted <=> Divergence > Thousandths(driftTolerance))

\* A call with a divergence equal to a tolerance that is not 0.
C6_Witness ==
  /\ Evaluated /\ ev.sync /\ ev.st.isLive
  /\ driftTolerance > 0
  /\ Divergence = Thousandths(driftTolerance)

\* C7: a syncPlayer call that finds the state live sets the cursor to the
\* expected position when the cursor diverges from it by more than
\* driftTolerance, and leaves the cursor as it is otherwise.
C7_DriftCorrection ==
  Evaluated /\ ev.sync /\ ev.st.isLive =>
    cursor = IF Divergence > Thousandths(driftTolerance)
             THEN ev.st.currentPosition
             ELSE ev.actual

\* A call that moved the cursor.
C7_Witness == Evaluated /\ ev.sync /\ ev.st.isLive /\ cursor # ev.actual

\* C8: ENDED is terminal: once an evaluation of the session has yielded
\* hasEnded, every later evaluation yields hasEnded (none yields isLive or
\* pre-roll).
C8_EndedIsTerminal ==
  Evaluated /\ ev.endedBefore => ev.st.hasEnded

\* C9: a syncPlayer call with elapsed >= videoDuration, the first such call
\* included, leaves the player paused with its cursor at videoDuration.
C9_EndedTransition ==
  Evaluated /\ ev.sync /\ Elapsed >= Duration =>
    cursor = Duration /\ paused

\* The first such call, finding a playing player short of the end.
C9_Witness ==
  /\ Evaluated /\ ev.sync /\ Elapsed >= Duration
  /\ ~ev.handledBefore /\ ~ev.endedBefore
  /\ ~ev.wasPaused /\ ev.actual < Duration

\* C10: after the syncPlayer call that handled Live -> Ended, no sync tick,
\* seek event or pause event writes the cursor or changes the play/pause
\* state of the player.
C10_NoCorrectionAfterEnded ==
  /\ Evaluated /\ ev.handledBefore
  /\ ev.by \in {"initialTimer", "interval", "seeking", "pause"}
  => cursor = ev.actual /\ paused = ev.wasPaused

\* C11: the evaluation triggered by the "seeking" event of a seek by the
\* user, made while the state is live, leaves the cursor at the expected
\* position, whatever the distance of the seek.
C11_SeekSuppression ==
  Evaluated /\ ev.by = "seeking" /\ ev.userSeek /\ ev.st.isLive =>
    cursor = ev.st.currentPosition

\* The state an evaluation made now would compute is live.
LiveNow == calculateSimuliveState(getSyncedTime, config).isLive

\* The player has just become paused, its "pause" event not delivered yet,
\* at a time the model follows for one more step of the clock.
BecamePaused ==
  /\ PlayerMounted /\ playerReady
  /\ paused /\ pauseEvents > 0
  /\ now + TickMs <= MaxNow

\* The pause has been answered: play() has been called, or the player plays
\* again, or the session has been torn down.
Resumed == playCalled \/ ~paused \/ ~mounted

WentLive ==
  Evaluated /\ ev.sync /\ ev.st.isLive /\ ~ev.wasLive /\ ~ev.endedBefore

\* the distance of the cursor from the expected position after the evaluation
Offset == MathAbs(cursor - ev.st.currentPosition)

C14_Teardown ==
  [][~mounted =>
       /\ cursor' = cursor /\ paused' = paused /\ ~playCalled'
       /\ Len(calibrations') <= Len(calibrations)]_vars

\* A calibrateTime call of the mounted session has just completed.
Calibrated == mounted /\ cal.by = "success"

CalibrationFailed == mounted /\ cal.by = "failure"

\* when the clock endpoint read its clock, on the client's clock
AnsweredAt == cal.serverTime - skew

\* The request and the response of the round trip took the same time.
Symmetric == AnsweredAt - cal.t0 = cal.t1 - AnsweredAt

\* C15: a calibration completed after a symmetric round trip leaves offset =
\* serverTime - (t0 + (t1 - t0)/2), t0 and t1 the local times before and
\* after the round trip (stated with both sides doubled), which is the true
\* difference of the two clocks whatever the round-trip time.
C15_HalfRoundTrip ==
  Calibrated /\ Symmetric =>
    /\ 2 * serverTimeOffset = 2 * cal.serverTime - (cal.t0 + cal.t1)
    /\ serverTimeOffset = skew

\* C16: a calibration that fails leaves the clock offset at its previous
\* value.
C16_FailureKeepsOffset ==
  CalibrationFailed => serverTimeOffset = cal.before

\* C17: when the last of several calibrations has completed, the clock offset
\* is the value that calibration wrote: serverTime - now of its completion,
\* or 0 if it failed.
C17_LastWriterWins ==
  /\ Calibrated => serverTimeOffset = cal.serverTime - cal.t1
  /\ CalibrationFailed => serverTimeOffset = 0

\* Two calls overlapped, and the one that began first completed last, with
\* another value than the one the other had written.
C17_Witness ==
  /\ Calibrated /\ calibrations = << >>
  /\ cal.t0 < cal.previousAt
  /\ serverTimeOffset # cal.before

\* C18: a heartbeat tick triggers a recalibration exactly when the time since
\* the previous tick differs from the 5 s of the interval by more than 2 s.
C18_Heartbeat ==
  mounted /\ cal.by = "heartbeat" =>
    (cal.recalibrated <=>
       MathAbs(cal.sincePrevious - HeartbeatInterval) > HeartbeatThreshold)

----------------------------------------------------------------------------
(* calculateSimuliveState handed NaN *)

\* The last step was a call of calculateSimuliveState whose elapsed time is
\* NaN.
ElapsedIsNaN ==
  /\ calc.by = "calculateSimuliveState"
  /\ isNaN(elapsedSeconds(calc.serverTimeMs, calc.scheduledStart))

\* C20: handed a NaN elapsed time (an unparsable scheduledStart or a NaN
\* synced time), calculateSimuliveState returns the ended state: hasEnded
\* is true and isLive is false.
C20_NaNIsEnded ==
  ElapsedIsNaN => calc.st.hasEnded /\ ~calc.st.isLive

\* On finite numbers the call gives what calculateSimuliveState of the
\* session gives on the same integers.
FiniteCallsAgree ==
  (calc.by = "calculateSimuliveState" /\ ~ElapsedIsNaN) =>
    LET r == calculateSimuliveState(calc.serverTimeMs.n,
               [scheduledStartMs |-> calc.scheduledStart.ms,
                videoDuration |-> calc.videoDuration])
    IN  calc.st = [ isLive |-> r.isLive, hasEnded |-> r.hasEnded,
                    currentPosition |-> Num(r.currentPosition),
                    secondsUntilStart |-> Num(r.secondsUntilStart),
                    secondsRemaining |-> Num(r.secondsRemaining) ]

----------------------------------------------------------------------------
(* The offset is finite *)

\* C21: whatever the clock endpoint answers, a JSON body without a numeric
\* serverTime included, the offset calibrateTime stores is a finite number,
\* and so is the synced time read with it.
C21_OffsetIsFinite ==
  calc.by = "calibrateTime" => ~isNaN(calc.offset) /\ ~isNaN(calc.syncedTime)

----------------------------------------------------------------------------
(* The sync loop *)

\* The last step was a run of syncPlayer driven by a sync timer.
TimerRun == Evaluated /\ ev.sync /\ ev.by \in {"initialTimer", "interval"}

\* C22: a timer-driven run of syncPlayer comes at least syncInterval ms
\* after the timer-driven run before it, the first run of the session (the
\* initial run, 500 ms after mount) not counted as a run before.
C22_OncePerSyncInterval ==
  TimerRun =>
    \A previous \in ev.previousTimerSync :
       ~previous.first => now - previous.at >= syncInterval

----------------------------------------------------------------------------
(* Signed playback *)

\* The player element exists or playback is under way on the page: the
\* element is rendered, its media is loaded, it plays, or syncPlayer has just
\* evaluated the state with it.
PlayerPresent ==
  mounted /\ (PlayerMounted \/ playerReady \/ ~paused \/ (Evaluated /\ ev.sync))

\* C19: on a signed stream the player is mounted, and playback can be under
\* way, only while tokens are held and no token error is set; once the token
\* request has failed the session shows "Unable to load signed video" and
\* the player is not mounted.
C19_SignedPlayback ==
  playbackPolicy = "signed" =>
    /\ PlayerPresent => tokenFetch = "done" /\ tokens # Null /\ tokenError = Null
    /\ mounted /\ tokenFetch = "failed" =>
          tokenError = TokenErrorText /\ ~PlayerPresent

\* The token request of a signed stream has failed and a sync timer has
\* since fired without finding a player.
C19_Witness ==
  /\ playbackPolicy = "signed" /\ mounted /\ tokenFetch = "failed"
  /\ tokenError = TokenErrorText
  /\ initialTimer = NoTimer

----------------------------------------------------------------------------
(* The stream endpoints *)

\* The last step answered a request to an endpoint that mutates a stream
\* record.
MutationAnswered ==
  res.by \in {"POST /api/streams", "PATCH /api/streams/[id]",
              "DELETE /api/streams/[id]"}

\* C23: with an admin password set, an endpoint that mutates a stream
\* record answers 401 to a caller that is not authenticated as admin, and
\* leaves the store as it was.
C23_MutationsNeedAdmin ==
  (MutationAnswered /\ adminPasswordSet /\ ~res.admin) =>
    res.status = 401 /\ streams = res.before

----------------------------------------------------------------------------
(* The chain of a correction *)

\* C24: the chain a cursor write of syncPlayer starts (the write queues a
\* "seeking" event, handleSeeking calls syncPlayer, which may write again)
\* comes to an end: the "seeking" events it queues are used up, for every
\* driftTolerance, 0 included, and with time passing between a write and
\* the delivery of its event.  The user does not seek in FairSpec, so every
\* "seeking" event there comes from a write of syncPlayer.
C24_CorrectionChainStops == (seekingEvents > 0) ~> (seekingEvents = 0)

----------------------------------------------------------------------------
(* The delayed resume and the pre-roll *)

\* The last step was the timeout of handlePause calling player.play():
\* syncPlayer, the only other caller, leaves its evaluation in ev.
ResumeTimerPlayed == playCalled /\ ev = NoEv

\* C25: the timeout set by handlePause does not call play() at a synced
\* time at which the stream has ended.
C25_NoResumeAfterEnd ==
  ResumeTimerPlayed => ~calculateSimuliveState(getSyncedTime, config).hasEnded

\* C26: while the synced time is before the scheduled start
\* (secondsUntilStart > 0) a mounted player is paused with its cursor at 0.
C26_PreRollNotPlaying ==
  (PlayerMounted /\
   calculateSimuliveState(getSyncedTime, config).secondsUntilStart > 0) =>
    paused /\ cursor = 0

----------------------------------------------------------------------------
(* The login route *)

LoginAnswered == res.by = "POST /api/admin/login"

\* C27: with Redis, of the login requests that an IP sends within one
\* window (the life of its counter, from the request that created it to
\* its expiry or its reset) at most MAX_LOGIN_ATTEMPTS get to the password
\* check; a request that is the 6th or later of its window is answered 429
\* and its password is not checked, whatever other requests are under way;
\* and when a login is answered 200 the counter of its IP has been reset.
C27_LoginRateLimit ==
  redisConfigured =>
    /\ \A ip \in Ips : verified[ip] <= MaxLoginAttempts
    /\ (LoginAnswered /\ res.attempts > MaxLoginAttempts) =>
          res.status = 429 /\ ~res.passwordChecked
    /\ (LoginAnswered /\ res.status = 200) =>
          loginAttempts[res.ip] = 0 /\ verified[res.ip] = 0

\* A request over the limit is answered 429 while another request of the
\* same IP is under way.
C27_Witness ==
  /\ redisConfigured /\ LoginAnswered
  /\ res.status = 429 /\ res.attempts > MaxLoginAttempts
  /\ \E login \in res.others : login.ip = res.ip

----------------------------------------------------------------------------
(* The sessions of the admin *)

\* C28: with an admin password set, a request passes isApiAuthenticated
\* only with a cookie that is a session token issued by createAdminSession
\* and not logged out since, with Redis and without.
C28_OnlyLiveSessions ==
  (res.by = "POST /api/streams" /\ adminPasswordSet /\ res.admin) =>
    res.cookie \in issued \ loggedOut

----------------------------------------------------------------------------
(* The cluster primary *)

\* C29: of the immediate respawns that follow the exits of one worker and
\* of its replacements, at most MAX_RESPAWNS fall within any window of
\* RESPAWN_WINDOW ms: a sixth one is RESPAWN_WINDOW or more after the first.
C29_RespawnsLimited ==
  \A slot \in 1..NUM_WORKERS :
    \A i \in DOMAIN immediate[slot] :
      (i + MAX_RESPAWNS) \in DOMAIN immediate[slot] =>
        immediate[slot][i + MAX_RESPAWNS] - immediate[slot][i] >= RESPAWN_WINDOW

\* C30: once the primary has received SIGTERM or SIGINT, the exit of a
\* worker forks no new worker.
C30_NoForkAfterSignal ==
  (forked.by # "none" /\ forked.afterSignal) => ~forked.respawned

====
